---------------------------- MODULE Spec2Model ----------------------------
(***************************************************************************)
(* Menu management backend: Category / SubCategory / Item request handlers *)
(* over a relational store reached through Prisma.                         *)
(*                                                                         *)
(* The state is the three tables and the editItem requests that have read  *)
(* their item and not yet written it.  Each handler is an operator from     *)
(* (tables, request) to (response, tables), translated from the controller  *)
(* code, and an action that commits the handler's tables.                   *)
(*                                                                         *)
(* Encoding of JavaScript values                                           *)
(*   - an optional value (a body key that may be absent, a nullable        *)
(*     column) is a sequence of length 0 or 1: U is `undefined` / NULL,    *)
(*     Some(v) is the value v;                                             *)
(*   - NaN, the result of `undefined - n`, is U as well: it is falsy;      *)
(*   - truthiness (`!x`, `x && ..`, `x || ..`) is Truthy*: absent, 0,      *)
(*     false and "" are falsy;                                             *)
(*   - request bodies are well typed (strings for text keys, booleans for  *)
(*     taxApplicable, numbers for tax and the amounts, ids for parents);   *)
(*   - a record's id (a uuid in the code) is its index in its table;       *)
(*   - amounts (doubles in the code) are small integers;                   *)
(*   - createdAt / updatedAt are written by the database and read by no    *)
(*     handler; they are not part of the tables here.                      *)
(* Every gateway call of Spec succeeds (a lookup may find nothing) and      *)
(* every request of Spec runs from its first to its last statement without *)
(* another request in between.  SpecFailing lets one gateway call of a     *)
(* request throw; SpecInterleaved lets editItem requests interleave between *)
(* their read and their write; SpecSearch stores items under several names. *)
(***************************************************************************)
EXTENDS Integers, Sequences, FiniteSets, TLC

VARIABLES categories, subCategories, items, requests

vars == <<categories, subCategories, items, requests>>

-----------------------------------------------------------------------------
(* Bounds of the model *)

MaxCategories == 1

MaxSubCategories == 1

MaxItems == 1

\* a request body differs from its base body in at most this many keys
MaxOverrides == 2

MaxSearchItems == 2

MaxInFlight == 2

-----------------------------------------------------------------------------
(* JavaScript values *)

U == <<>>

Some(v) == <<v>>

NaN == <<>>

Opt(S) == {U} \cup {Some(v) : v \in S}

TruthyStr(o) == o # U /\ o[1] # ""

TruthyNum(o) == o # U /\ o[1] # 0

TruthyBool(o) == o # U /\ o[1]

\* `n || 0` on an optional number
OrZero(o) == IF TruthyNum(o) THEN o[1] ELSE 0

\* `a - n` where a may be undefined
Minus(a, n) == IF a = U THEN NaN ELSE Some(a[1] - n)

-----------------------------------------------------------------------------
(* Request values *)

NameVals == {"Tea"}

ImageVals == {"t.png"}

DescriptionVals == {"Hot"}

TaxTypeVals == {"GST"}

TaxVals == {0, 1}

BaseAmountVals == {0, 1, 2}

DiscountVals == {0, 1}

CategoryIds == 1 .. (MaxCategories + 1)

SubCategoryIds == 1 .. (MaxSubCategories + 1)

ItemIds == 1 .. (MaxItems + 1)

Differs(b, base) == {k \in DOMAIN base : b[k] # base[k]}

\* the bodies of S within MaxOverrides keys of base, as an enumerated set
Near(S, base) ==
    {b : b \in {c \in S : Cardinality(Differs(c, base)) <= MaxOverrides}}

CategoryBodies ==
    [name : Opt(NameVals), image : Opt(ImageVals),
     description : Opt(DescriptionVals), taxApplicable : Opt(BOOLEAN),
     tax : Opt(TaxVals), taxType : Opt(TaxTypeVals)]

SubCategoryBodies ==
    [name : Opt(NameVals), image : Opt(ImageVals),
     description : Opt(DescriptionVals), taxApplicable : Opt(BOOLEAN),
     tax : Opt(TaxVals), categoryId : Opt(CategoryIds)]

SubCategoryEditBodies ==
    [name : Opt(NameVals), image : Opt(ImageVals),
     description : Opt(DescriptionVals), taxApplicable : Opt(BOOLEAN),
     tax : Opt(TaxVals)]

ItemBodies ==
    [name : Opt(NameVals), image : Opt(ImageVals),
     description : Opt(DescriptionVals), taxApplicable : Opt(BOOLEAN),
     tax : Opt(TaxVals), baseAmount : Opt(BaseAmountVals),
     discount : Opt(DiscountVals), subCategory : Opt(SubCategoryIds),
     category : Opt(CategoryIds)]

\* a complete, valid body of each create request
CategoryBase ==
    [name |-> Some("Tea"), image |-> Some("t.png"), description |-> Some("Hot"),
     taxApplicable |-> Some(FALSE), tax |-> U, taxType |-> U]

SubCategoryBase ==
    [name |-> Some("Tea"), image |-> Some("t.png"), description |-> Some("Hot"),
     taxApplicable |-> U, tax |-> U, categoryId |-> Some(1)]

ItemBase ==
    [name |-> Some("Tea"), image |-> Some("t.png"), description |-> Some("Hot"),
     taxApplicable |-> Some(FALSE), tax |-> U, baseAmount |-> Some(1),
     discount |-> U, subCategory |-> U, category |-> Some(1)]

\* the empty body
Empty(S) == CHOOSE b \in S : \A k \in DOMAIN b : b[k] = U

CategoryCreateBodies == Near(CategoryBodies, CategoryBase)

CategoryEditBodies == Near(CategoryBodies, Empty(CategoryBodies))

SubCategoryCreateBodies == Near(SubCategoryBodies, SubCategoryBase)

SubCategoryUpdateBodies == Near(SubCategoryEditBodies, Empty(SubCategoryEditBodies))

ItemCreateBodies == Near(ItemBodies, ItemBase)

ItemEditBodies == Near(ItemBodies, Empty(ItemBodies))

\* the bodies of the interleaved requests: the complete bodies that create an
\* item with some amounts, and the edits of name, baseAmount and discount
AmountKeys == {"baseAmount", "discount"}

ItemAmountBodies ==
    {b : b \in {c \in ItemCreateBodies : Differs(c, ItemBase) \subseteq AmountKeys}}

ItemAmountEditBodies ==
    {b : b \in {c \in ItemEditBodies :
                    Differs(c, Empty(ItemBodies)) \subseteq AmountKeys \cup {"name"}}}

\* the names of the items that are searched, and the queries of a search
SearchNames == {"Tea", "Chai", "Iced tea"}

SearchQueries == {"", "Tea", "tea", "TEA", "a", "ch", "ea ", "tee"}

\* the complete bodies that create an item under each of these names
SearchItemBodies == {[ItemBase EXCEPT !.name = Some(n)] : n \in SearchNames}

-----------------------------------------------------------------------------
(* Persistence gateway *)

\* findUnique / findFirst by id
Exists(table, id) == id \in 1 .. Len(table)

\* the rows of a table, each with its id
Rows(table) == [i \in 1 .. Len(table) |-> [id |-> i, row |-> table[i]]]

\* the records a table holds
Stored(table) == {table[i] : i \in 1 .. Len(table)}

\* findMany({ where }): the rows whose record is among those the filter admits
findMany(table, where) == SelectSeq(Rows(table), LAMBDA r : r.row \in where)

\* the characters of the strings that names and queries take
Chars(s) ==
    CASE s = "" -> <<>>
      [] s = "Tea" -> <<"T", "e", "a">>
      [] s = "Chai" -> <<"C", "h", "a", "i">>
      [] s = "Iced tea" -> <<"I", "c", "e", "d", " ", "t", "e", "a">>
      [] s = "tea" -> <<"t", "e", "a">>
      [] s = "TEA" -> <<"T", "E", "A">>
      [] s = "a" -> <<"a">>
      [] s = "ch" -> <<"c", "h">>
      [] s = "ea " -> <<"e", "a", " ">>
      [] s = "tee" -> <<"t", "e", "e">>

UpperCase ==
    <<"A", "B", "C", "D", "E", "F", "G", "H", "I", "J", "K", "L", "M",
      "N", "O", "P", "Q", "R", "S", "T", "U", "V", "W", "X", "Y", "Z">>

LowerCase ==
    <<"a", "b", "c", "d", "e", "f", "g", "h", "i", "j", "k", "l", "m",
      "n", "o", "p", "q", "r", "s", "t", "u", "v", "w", "x", "y", "z">>

\* the case folding of mode: "insensitive"
ToLower(chars) ==
    [k \in 1 .. Len(chars) |->
        IF \E u \in 1 .. Len(UpperCase) : UpperCase[u] = chars[k]
        THEN LowerCase[CHOOSE u \in 1 .. Len(UpperCase) : UpperCase[u] = chars[k]]
        ELSE chars[k]]

\* the comparison of the characters as they are
ContainsInsensitive_m(name, query) ==
    LET hay == Chars(name)
        needle == Chars(query)
    IN  \E k \in 0 .. (Len(hay) - Len(needle)) :
            SubSeq(hay, k + 1, k + Len(needle)) = needle

\* name: { contains: query, mode: "insensitive" }
ContainsInsensitive(name, query) ==
    LET hay == ToLower(Chars(name))
        needle == ToLower(Chars(query))
    IN  \E k \in 0 .. (Len(hay) - Len(needle)) :
            SubSeq(hay, k + 1, k + Len(needle)) = needle

\* a response that leaves the tables as they are
Respond(status, message) ==
    [status |-> status, message |-> message, categories |-> categories,
     subCategories |-> subCategories, items |-> items]

\* res.status(200).json(rows)
RespondRows(rows) ==
    [status |-> 200, message |-> "", data |-> rows, categories |-> categories,
     subCategories |-> subCategories, items |-> items]

\* findFirst({ where: { id } }) or findFirst({ where: { name: { contains } } })
findFirst(table, id, name) ==
    IF id # U
    THEN IF Exists(table, id[1]) THEN <<Rows(table)[id[1]]>> ELSE <<>>
    ELSE LET rows == findMany(table,
                              {c \in Stored(table) :
                                  ContainsInsensitive(c.name, name[1])})
         IN  IF Len(rows) = 0 THEN <<>> ELSE <<rows[1]>>

\* a gateway call awaited inside the handler's try block, and one awaited
\* outside of it
InTry(call) == [call |-> call, inTry |-> TRUE]

OutsideTry(call) == [call |-> call, inTry |-> FALSE]

\* what the client gets and what the tables hold when the handler ends with
\* the response r
Answered(r) ==
    [responses |-> <<[status |-> r.status, message |-> r.message]>>,
     escaped |-> FALSE, categories |-> r.categories,
     subCategories |-> r.subCategories, items |-> r.items]

\* catch (error) { return res.status(500).json({ message }) }
Caught ==
    [responses |-> <<[status |-> 500, message |-> "Something went wrong"]>>,
     escaped |-> FALSE, categories |-> categories,
     subCategories |-> subCategories, items |-> items]

\* the promise of the async handler rejects. The application installs no
\* error middleware: the router either drops the rejection, and nothing is
\* sent, or hands it to the framework's default error handler, which sends a
\* 500 that carries no JSON message
Rejected ==
    {[responses |-> sent, escaped |-> TRUE, categories |-> categories,
      subCategories |-> subCategories, items |-> items] :
        sent \in {<<>>, <<[status |-> 500, message |-> ""]>>}}

\* the ways the handler that ends with r when its gateway calls succeed can
\* end when the call numbered fail throws (0: none does)
WithFailure(r, calls, fail) ==
    IF fail = 0 THEN {Answered(r)}
    ELSE IF calls[fail].inTry THEN {Caught}
    ELSE Rejected

-----------------------------------------------------------------------------
(* Category controller *)

categoryFieldsMissing(body) ==
    \/ ~TruthyStr(body.name)
    \/ ~TruthyStr(body.image)
    \/ ~TruthyStr(body.description)
    \/ body.taxApplicable = U

\* a taxed category is accepted without tax and taxType
createCategoryTaxMissing_m(body) == FALSE

createCategoryTaxMissing(body) ==
    /\ body.taxApplicable = Some(TRUE)
    /\ ~TruthyNum(body.tax)
    /\ ~TruthyStr(body.taxType)

createCategory(body) ==
    IF categoryFieldsMissing(body)
    THEN Respond(400, "All fields are required")
    ELSE IF createCategoryTaxMissing(body)
    THEN Respond(400, "Tax or TaxType is required")
    ELSE [Respond(201, "") EXCEPT !.categories =
            Append(categories,
                   [name |-> body.name[1], image |-> body.image[1],
                    description |-> body.description[1],
                    taxApplicable |-> body.taxApplicable[1],
                    tax |-> body.tax, taxType |-> body.taxType])]

categoryNoFields(body) ==
    /\ ~TruthyStr(body.name)
    /\ ~TruthyStr(body.image)
    /\ ~TruthyStr(body.description)
    /\ body.taxApplicable = U
    /\ ~TruthyNum(body.tax)
    /\ ~TruthyStr(body.taxType)

\* a check that never fires, as when the flag is compared with "true"
editCategoryTaxMissing_m(body) == FALSE

editCategoryTaxMissing(body) ==
    /\ body.taxApplicable = Some(TRUE)
    /\ ~TruthyNum(body.tax)
    /\ ~TruthyStr(body.taxType)

\* the tax written as the body has it, also when the body has none
categoryData_m(old, body) ==
    [name |-> IF TruthyStr(body.name) THEN body.name[1] ELSE old.name,
     image |-> IF TruthyStr(body.image) THEN body.image[1] ELSE old.image,
     description |-> IF TruthyStr(body.description) THEN body.description[1]
                     ELSE old.description,
     taxApplicable |-> IF TruthyBool(body.taxApplicable) THEN body.taxApplicable[1]
                       ELSE old.taxApplicable,
     tax |-> body.tax,
     taxType |-> IF TruthyStr(body.taxType) THEN body.taxType ELSE old.taxType]

\* the data of prisma.category.update applied to the stored record
categoryData(old, body) ==
    [name |-> IF TruthyStr(body.name) THEN body.name[1] ELSE old.name,
     image |-> IF TruthyStr(body.image) THEN body.image[1] ELSE old.image,
     description |-> IF TruthyStr(body.description) THEN body.description[1]
                     ELSE old.description,
     taxApplicable |-> IF TruthyBool(body.taxApplicable) THEN body.taxApplicable[1]
                       ELSE old.taxApplicable,
     tax |-> IF TruthyNum(body.tax) THEN body.tax ELSE old.tax,
     taxType |-> IF TruthyStr(body.taxType) THEN body.taxType ELSE old.taxType]

\* an update that also hands the category's tax down to its subcategories
categoryUpdate_m(id, body) ==
    LET new == categoryData(categories[id], body)
    IN  [Respond(200, "") EXCEPT
            !.categories = [categories EXCEPT ![id] = new],
            !.subCategories =
                [i \in 1 .. Len(subCategories) |->
                    IF subCategories[i].categoryId = id
                    THEN [subCategories[i] EXCEPT
                            !.taxApplicable = Some(new.taxApplicable),
                            !.tax = new.tax]
                    ELSE subCategories[i]]]

\* prisma.category.update({ where: { id }, data })
categoryUpdate(id, body) ==
    [Respond(200, "") EXCEPT !.categories =
        [categories EXCEPT ![id] = categoryData(categories[id], body)]]

editCategory(id, body) ==
    IF id = U
    THEN Respond(400, "Id is required")
    ELSE IF categoryNoFields(body)
    THEN Respond(400, "At least one field is required")
    ELSE IF editCategoryTaxMissing(body)
    THEN Respond(400, "Tax or TaxType is required")
    ELSE IF ~Exists(categories, id[1])
    THEN Respond(404, "Category not found")
    ELSE categoryUpdate(id[1], body)

getCategories ==
    LET rows == findMany(categories, Stored(categories))
    IN  IF Len(rows) = 0
        THEN Respond(404, "Categories not found")
        ELSE RespondRows(rows)

getCategory(id, name) ==
    IF id = U /\ ~TruthyStr(name)
    THEN Respond(400, "Id or name is required")
    ELSE LET category == findFirst(categories, id, name)
         IN  IF category = <<>>
             THEN Respond(404, "Category not found")
             ELSE RespondRows(category[1])

\* the gateway calls each handler of the controller makes, in their order
createCategoryCalls(body) ==
    IF categoryFieldsMissing(body) \/ createCategoryTaxMissing(body)
    THEN <<>>
    ELSE <<InTry("category.create")>>

getCategoriesCalls == <<InTry("category.findMany")>>

getCategoryCalls(id, name) ==
    IF id = U /\ ~TruthyStr(name) THEN <<>>
    ELSE <<InTry("category.findFirst")>>

editCategoryCalls(id, body) ==
    IF id = U \/ categoryNoFields(body) \/ editCategoryTaxMissing(body)
    THEN <<>>
    ELSE IF ~Exists(categories, id[1])
    THEN <<InTry("category.findFirst")>>
    ELSE <<InTry("category.findFirst"), InTry("category.update")>>

-----------------------------------------------------------------------------
(* SubCategory controller *)

subCategoryFieldsMissing(body) ==
    \/ ~TruthyStr(body.name)
    \/ ~TruthyStr(body.image)
    \/ ~TruthyStr(body.description)
    \/ body.categoryId = U

\* taxApplicable: taxApplicable || defaultTaxApplicable
subCategoryTaxApplicable(body, category) ==
    IF TruthyBool(body.taxApplicable) THEN body.taxApplicable
    ELSE Some(category.taxApplicable)

\* the tax of the body alone, without the parent's default
subCategoryTax_m(body, category) == body.tax

\* tax: tax || defaultTax
subCategoryTax(body, category) ==
    IF TruthyNum(body.tax) THEN body.tax ELSE category.tax

createSubCategory(body) ==
    IF subCategoryFieldsMissing(body)
    THEN Respond(400, "All fields are required")
    ELSE IF ~Exists(categories, body.categoryId[1])
    THEN Respond(404, "Category not found, unable to create subcategory")
    ELSE LET category == categories[body.categoryId[1]]
         IN  [Respond(200, "") EXCEPT !.subCategories =
                Append(subCategories,
                       [name |-> body.name[1], image |-> body.image[1],
                        description |-> body.description[1],
                        taxApplicable |-> subCategoryTaxApplicable(body, category),
                        tax |-> subCategoryTax(body, category),
                        categoryId |-> body.categoryId[1]])]

subCategoryNoFields(body) ==
    /\ ~TruthyStr(body.name)
    /\ ~TruthyStr(body.image)
    /\ ~TruthyStr(body.description)
    /\ body.taxApplicable = U
    /\ ~TruthyNum(body.tax)

\* the data of prisma.subCategory.update applied to the stored record
subCategoryData(old, body) ==
    [old EXCEPT
        !.name = IF TruthyStr(body.name) THEN body.name[1] ELSE @,
        !.image = IF TruthyStr(body.image) THEN body.image[1] ELSE @,
        !.description = IF TruthyStr(body.description) THEN body.description[1]
                        ELSE @,
        !.taxApplicable = IF TruthyBool(body.taxApplicable) THEN body.taxApplicable
                          ELSE @,
        !.tax = IF TruthyNum(body.tax) THEN body.tax ELSE @]

editSubCategory(id, body) ==
    IF id = U
    THEN Respond(400, "Id is required")
    ELSE IF subCategoryNoFields(body)
    THEN Respond(400, "At least one field is required")
    ELSE IF ~Exists(subCategories, id[1])
    THEN Respond(404, "SubCategory not found")
    ELSE [Respond(200, "") EXCEPT !.subCategories =
            [subCategories EXCEPT ![id[1]] =
                subCategoryData(subCategories[id[1]], body)]]

getSubCategories ==
    LET rows == findMany(subCategories, Stored(subCategories))
    IN  IF Len(rows) = 0
        THEN Respond(404, "SubCategories not found")
        ELSE RespondRows(rows)

getSubCategoriesByCategory(id) ==
    IF id = U
    THEN Respond(400, "Id is required")
    ELSE LET rows == findMany(subCategories,
                              {c \in Stored(subCategories) : c.categoryId = id[1]})
         IN  IF Len(rows) = 0
             THEN Respond(404, "SubCategories not found")
             ELSE RespondRows(rows)

getSubCategory(id, name) ==
    IF id = U /\ ~TruthyStr(name)
    THEN Respond(400, "Id or name is required")
    ELSE LET subCategory == findFirst(subCategories, id, name)
         IN  IF subCategory = <<>>
             THEN Respond(404, "SubCategory not found")
             ELSE RespondRows(subCategory[1])

\* the gateway calls each handler of the controller makes, in their order
createSubCategoryCalls(body) ==
    IF subCategoryFieldsMissing(body)
    THEN <<>>
    ELSE IF ~Exists(categories, body.categoryId[1])
    THEN <<OutsideTry("category.findUnique")>>
    ELSE <<OutsideTry("category.findUnique"), InTry("subCategory.create")>>

getSubCategoriesCalls == <<InTry("subCategory.findMany")>>

getSubCategoriesByCategoryCalls(id) ==
    IF id = U THEN <<>> ELSE <<InTry("subCategory.findMany")>>

getSubCategoryCalls(id, name) ==
    IF id = U /\ ~TruthyStr(name) THEN <<>>
    ELSE <<InTry("subCategory.findFirst")>>

editSubCategoryCalls(id, body) ==
    IF id = U \/ subCategoryNoFields(body)
    THEN <<>>
    ELSE IF ~Exists(subCategories, id[1])
    THEN <<OutsideTry("subCategory.findUnique")>>
    ELSE <<OutsideTry("subCategory.findUnique"), InTry("subCategory.update")>>

-----------------------------------------------------------------------------
(* Item controller *)

itemFieldsMissing(body) ==
    \/ ~TruthyStr(body.name)
    \/ ~TruthyStr(body.image)
    \/ ~TruthyStr(body.description)
    \/ body.taxApplicable = U
    \/ ~TruthyNum(body.baseAmount)
    \/ (body.subCategory = U /\ body.category = U)

\* the subcategory is connected without being looked up
createItemSubCategoryNotFound_m(body) == FALSE

\* the parent a request names, when it names one, must be stored
createItemSubCategoryNotFound(body) ==
    body.subCategory # U /\ ~Exists(subCategories, body.subCategory[1])

\* the category is connected without being looked up
createItemCategoryNotFound_m(body) == FALSE

createItemCategoryNotFound(body) ==
    body.category # U /\ ~Exists(categories, body.category[1])

\* totalAmount: baseAmount - (discount || 0)
createItemTotal(body) == body.baseAmount[1] - OrZero(body.discount)

createItem(body) ==
    IF itemFieldsMissing(body)
    THEN Respond(400, "All fields are required")
    ELSE IF createItemSubCategoryNotFound(body)
    THEN Respond(404, "SubCategory not found, unable to create item")
    ELSE IF createItemCategoryNotFound(body)
    THEN Respond(404, "Category not found, unable to create item")
    ELSE [Respond(201, "") EXCEPT !.items =
            Append(items,
                   [name |-> body.name[1], image |-> body.image[1],
                    description |-> body.description[1],
                    taxApplicable |-> body.taxApplicable,
                    tax |-> body.tax,
                    baseAmount |-> body.baseAmount[1],
                    discount |-> Some(OrZero(body.discount)),
                    totalAmount |-> createItemTotal(body),
                    subCategoryId |-> body.subCategory,
                    categoryId |-> body.category])]

itemNoFields(body) ==
    /\ ~TruthyStr(body.name)
    /\ ~TruthyStr(body.image)
    /\ ~TruthyStr(body.description)
    /\ ~TruthyBool(body.taxApplicable)
    /\ ~TruthyNum(body.tax)
    /\ ~TruthyNum(body.baseAmount)
    /\ ~TruthyNum(body.discount)
    /\ body.subCategory = U
    /\ body.category = U

editItemTaxMissing(body) ==
    body.taxApplicable = Some(TRUE) /\ ~TruthyNum(body.tax)

editItemSubCategoryNotFound(body) ==
    body.subCategory # U /\ ~Exists(subCategories, body.subCategory[1])

\* the category is connected without being looked up
editItemCategoryNotFound_m(body) == FALSE

editItemCategoryNotFound(body) ==
    body.category # U /\ ~Exists(categories, body.category[1])

\* falls back to the stored baseAmount instead of the stored totalAmount
editItemTotal_m(body, itemExists) ==
    LET computed == Minus(body.baseAmount, OrZero(body.discount))
    IN  IF TruthyNum(computed) THEN computed[1] ELSE itemExists.baseAmount

\* totalAmount: baseAmount - (discount || 0) || itemExists.totalAmount
editItemTotal(body, itemExists) ==
    LET computed == Minus(body.baseAmount, OrZero(body.discount))
    IN  IF TruthyNum(computed) THEN computed[1] ELSE itemExists.totalAmount

\* the data of prisma.item.update applied to the stored record
itemData(old, body) ==
    [old EXCEPT
        !.name = IF TruthyStr(body.name) THEN body.name[1] ELSE @,
        !.image = IF TruthyStr(body.image) THEN body.image[1] ELSE @,
        !.description = IF TruthyStr(body.description) THEN body.description[1]
                        ELSE @,
        !.taxApplicable = IF TruthyBool(body.taxApplicable) THEN body.taxApplicable
                          ELSE @,
        !.tax = IF TruthyNum(body.tax) THEN body.tax ELSE @,
        !.baseAmount = IF TruthyNum(body.baseAmount) THEN body.baseAmount[1] ELSE @,
        !.discount = IF TruthyNum(body.discount) THEN body.discount ELSE @,
        !.totalAmount = editItemTotal(body, old),
        !.subCategoryId = IF body.subCategory # U THEN body.subCategory ELSE @,
        !.categoryId = IF body.category # U THEN body.category ELSE @]

\* the tax check made after the lookup, accepting the stored tax
editItem_m(id, body) ==
    IF id = U
    THEN Respond(400, "Id is required")
    ELSE IF itemNoFields(body)
    THEN Respond(400, "At least one field is required")
    ELSE IF ~Exists(items, id[1])
    THEN Respond(404, "Item not found with given id")
    ELSE IF editItemTaxMissing(body) /\ ~TruthyNum(items[id[1]].tax)
    THEN Respond(400, "Tax is required")
    ELSE IF editItemSubCategoryNotFound(body)
    THEN Respond(404, "SubCategory not found, unable to edit item")
    ELSE IF editItemCategoryNotFound(body)
    THEN Respond(404, "Category not found, unable to edit item")
    ELSE [Respond(200, "") EXCEPT !.items =
            [items EXCEPT ![id[1]] = itemData(items[id[1]], body)]]

\* the response of editItem that ends the request before its update: the
\* validation, the lookup of the item and the lookups of the parents
editItemRead(id, body) ==
    IF id = U
    THEN Respond(400, "Id is required")
    ELSE IF itemNoFields(body)
    THEN Respond(400, "At least one field is required")
    ELSE IF editItemTaxMissing(body)
    THEN Respond(400, "Tax is required")
    ELSE IF ~Exists(items, id[1])
    THEN Respond(404, "Item not found with given id")
    ELSE IF editItemSubCategoryNotFound(body)
    THEN Respond(404, "SubCategory not found, unable to edit item")
    ELSE IF editItemCategoryNotFound(body)
    THEN Respond(404, "Category not found, unable to edit item")
    ELSE Respond(200, "")

\* the row prisma.item.update writes: the data is applied to the row as it
\* is stored now, the fallback of totalAmount is that of the row read
itemWrite(current, body, itemExists) ==
    [itemData(current, body) EXCEPT
        !.totalAmount = editItemTotal(body, itemExists)]

\* the update of editItem by a request that has read itemExists
editItemWrite(id, body, itemExists) ==
    [Respond(200, "") EXCEPT !.items =
        [items EXCEPT ![id[1]] = itemWrite(items[id[1]], body, itemExists)]]

editItem(id, body) ==
    IF id = U
    THEN Respond(400, "Id is required")
    ELSE IF itemNoFields(body)
    THEN Respond(400, "At least one field is required")
    ELSE IF editItemTaxMissing(body)
    THEN Respond(400, "Tax is required")
    ELSE IF ~Exists(items, id[1])
    THEN Respond(404, "Item not found with given id")
    ELSE IF editItemSubCategoryNotFound(body)
    THEN Respond(404, "SubCategory not found, unable to edit item")
    ELSE IF editItemCategoryNotFound(body)
    THEN Respond(404, "Category not found, unable to edit item")
    ELSE [Respond(200, "") EXCEPT !.items =
            [items EXCEPT ![id[1]] = itemData(items[id[1]], body)]]

\* every stored item is returned, also when there is none
getItems_m == RespondRows(findMany(items, Stored(items)))

getItems ==
    LET rows == findMany(items, Stored(items))
    IN  IF Len(rows) = 0
        THEN Respond(404, "Items not found")
        ELSE RespondRows(rows)

getItemsByCategory(id) ==
    IF id = U
    THEN Respond(400, "Id is required")
    ELSE LET rows == findMany(items, {c \in Stored(items) : c.categoryId = id})
         IN  IF Len(rows) = 0
             THEN Respond(404, "Items not found")
             ELSE RespondRows(rows)

getItemsBySubCategory(id) ==
    IF id = U
    THEN Respond(400, "Id is required")
    ELSE LET rows == findMany(items, {c \in Stored(items) : c.subCategoryId = id})
         IN  IF Len(rows) = 0
             THEN Respond(404, "Items not found")
             ELSE RespondRows(rows)

searchItem(name) ==
    IF ~TruthyStr(name)
    THEN Respond(400, "Name is required")
    ELSE LET rows == findMany(items,
                              {c \in Stored(items) :
                                  ContainsInsensitive(c.name, name[1])})
         IN  IF Len(rows) = 0
             THEN Respond(404, "items not found")
             ELSE RespondRows(rows)

getItem(id, name) ==
    IF id = U /\ ~TruthyStr(name)
    THEN Respond(400, "Id or name is required")
    ELSE LET item == findFirst(items, id, name)
         IN  IF item = <<>>
             THEN Respond(404, "item not found")
             ELSE RespondRows(item[1])

\* the lookups of the parents a body names, up to the first that finds none
parentLookups(body) ==
    IF body.subCategory # U
    THEN IF ~Exists(subCategories, body.subCategory[1]) \/ body.category = U
         THEN <<OutsideTry("subCategory.findFirst")>>
         ELSE <<OutsideTry("subCategory.findFirst"),
                OutsideTry("category.findFirst")>>
    ELSE IF body.category # U
    THEN <<OutsideTry("category.findFirst")>>
    ELSE <<>>

\* the gateway calls each handler of the controller makes, in their order
createItemCalls(body) ==
    IF itemFieldsMissing(body)
    THEN <<>>
    ELSE IF createItemSubCategoryNotFound(body)
            \/ createItemCategoryNotFound(body)
    THEN parentLookups(body)
    ELSE parentLookups(body) \o <<InTry("item.create")>>

getItemsCalls == <<InTry("item.findMany")>>

getItemCalls(id, name) ==
    IF id = U /\ ~TruthyStr(name) THEN <<>>
    ELSE <<InTry("item.findFirst")>>

getItemsByCategoryCalls(id) ==
    IF id = U THEN <<>> ELSE <<InTry("item.findMany")>>

getItemsBySubCategoryCalls(id) ==
    IF id = U THEN <<>> ELSE <<InTry("item.findMany")>>

editItemCalls(id, body) ==
    IF id = U \/ itemNoFields(body) \/ editItemTaxMissing(body)
    THEN <<>>
    ELSE IF ~Exists(items, id[1])
    THEN <<OutsideTry("item.findUnique")>>
    ELSE IF editItemSubCategoryNotFound(body)
            \/ editItemCategoryNotFound(body)
    THEN <<OutsideTry("item.findUnique")>> \o parentLookups(body)
    ELSE <<OutsideTry("item.findUnique")>> \o parentLookups(body)
            \o <<InTry("item.update")>>

searchItemCalls(name) ==
    IF ~TruthyStr(name) THEN <<>> ELSE <<InTry("item.findMany")>>

-----------------------------------------------------------------------------
(* Specification *)

Init ==
    /\ categories = <<>>
    /\ subCategories = <<>>
    /\ items = <<>>
    /\ requests = [k \in 1 .. MaxInFlight |-> U]

\* the tables after the handler's gateway call
Commit(r) ==
    /\ categories' = r.categories
    /\ subCategories' = r.subCategories
    /\ items' = r.items
    /\ UNCHANGED requests

\* the create requests are bounded by the size of their table
CreateCategory ==
    /\ Len(categories) < MaxCategories
    /\ \E body \in CategoryCreateBodies : Commit(createCategory(body))

EditCategory ==
    \E id \in CategoryIds, body \in CategoryEditBodies :
        Commit(editCategory(Some(id), body))

CreateSubCategory ==
    /\ Len(subCategories) < MaxSubCategories
    /\ \E body \in SubCategoryCreateBodies : Commit(createSubCategory(body))

EditSubCategory ==
    \E id \in SubCategoryIds, body \in SubCategoryUpdateBodies :
        Commit(editSubCategory(Some(id), body))

CreateItem ==
    /\ Len(items) < MaxItems
    /\ \E body \in ItemCreateBodies : Commit(createItem(body))

EditItem ==
    \E id \in ItemIds, body \in ItemEditBodies :
        Commit(editItem(Some(id), body))

GetCategories == Commit(getCategories)

GetSubCategories == Commit(getSubCategories)

GetSubCategoriesByCategory ==
    \E id \in CategoryIds : Commit(getSubCategoriesByCategory(Some(id)))

GetItems == Commit(getItems)

GetItemsByCategory ==
    \E id \in CategoryIds : Commit(getItemsByCategory(Some(id)))

GetItemsBySubCategory ==
    \E id \in SubCategoryIds : Commit(getItemsBySubCategory(Some(id)))

SearchItem ==
    \E name \in Opt(SearchQueries) : Commit(searchItem(name))

GetCategory ==
    \E id \in Opt(CategoryIds), name \in Opt(SearchQueries) :
        Commit(getCategory(id, name))

GetSubCategory ==
    \E id \in Opt(SubCategoryIds), name \in Opt(SearchQueries) :
        Commit(getSubCategory(id, name))

GetItem ==
    \E id \in Opt(ItemIds), name \in Opt(SearchQueries) :
        Commit(getItem(id, name))

Next ==
    \/ CreateCategory
    \/ EditCategory
    \/ GetCategories
    \/ GetCategory
    \/ CreateSubCategory
    \/ EditSubCategory
    \/ GetSubCategories
    \/ GetSubCategory
    \/ GetSubCategoriesByCategory
    \/ CreateItem
    \/ EditItem
    \/ GetItems
    \/ GetItem
    \/ GetItemsByCategory
    \/ GetItemsBySubCategory
    \/ SearchItem

Spec == Init /\ [][Next]_vars

\* a request during which at most one gateway call throws
Failing(r, calls) ==
    \E fail \in 0 .. Len(calls) :
        \E outcome \in WithFailure(r, calls, fail) : Commit(outcome)

CreateCategoryFailing ==
    /\ Len(categories) < MaxCategories
    /\ \E body \in CategoryCreateBodies :
          Failing(createCategory(body), createCategoryCalls(body))

GetCategoriesFailing == Failing(getCategories, getCategoriesCalls)

GetCategoryFailing ==
    \E id \in Opt(CategoryIds), name \in Opt(SearchQueries) :
        Failing(getCategory(id, name), getCategoryCalls(id, name))

EditCategoryFailing ==
    \E id \in CategoryIds, body \in CategoryEditBodies :
        Failing(editCategory(Some(id), body), editCategoryCalls(Some(id), body))

CreateSubCategoryFailing ==
    /\ Len(subCategories) < MaxSubCategories
    /\ \E body \in SubCategoryCreateBodies :
          Failing(createSubCategory(body), createSubCategoryCalls(body))

GetSubCategoriesFailing == Failing(getSubCategories, getSubCategoriesCalls)

GetSubCategoryFailing ==
    \E id \in Opt(SubCategoryIds), name \in Opt(SearchQueries) :
        Failing(getSubCategory(id, name), getSubCategoryCalls(id, name))

GetSubCategoriesByCategoryFailing ==
    \E id \in CategoryIds :
        Failing(getSubCategoriesByCategory(Some(id)),
                getSubCategoriesByCategoryCalls(Some(id)))

EditSubCategoryFailing ==
    \E id \in SubCategoryIds, body \in SubCategoryUpdateBodies :
        Failing(editSubCategory(Some(id), body),
                editSubCategoryCalls(Some(id), body))

CreateItemFailing ==
    /\ Len(items) < MaxItems
    /\ \E body \in ItemCreateBodies :
          Failing(createItem(body), createItemCalls(body))

GetItemsFailing == Failing(getItems, getItemsCalls)

GetItemFailing ==
    \E id \in Opt(ItemIds), name \in Opt(SearchQueries) :
        Failing(getItem(id, name), getItemCalls(id, name))

GetItemsByCategoryFailing ==
    \E id \in CategoryIds :
        Failing(getItemsByCategory(Some(id)), getItemsByCategoryCalls(Some(id)))

GetItemsBySubCategoryFailing ==
    \E id \in SubCategoryIds :
        Failing(getItemsBySubCategory(Some(id)),
                getItemsBySubCategoryCalls(Some(id)))

EditItemFailing ==
    \E id \in ItemIds, body \in ItemEditBodies :
        Failing(editItem(Some(id), body), editItemCalls(Some(id), body))

SearchItemFailing ==
    \E name \in Opt(SearchQueries) :
        Failing(searchItem(name), searchItemCalls(name))

NextFailing ==
    \/ CreateCategoryFailing
    \/ GetCategoriesFailing
    \/ GetCategoryFailing
    \/ EditCategoryFailing
    \/ CreateSubCategoryFailing
    \/ GetSubCategoriesFailing
    \/ GetSubCategoryFailing
    \/ GetSubCategoriesByCategoryFailing
    \/ EditSubCategoryFailing
    \/ CreateItemFailing
    \/ GetItemsFailing
    \/ GetItemFailing
    \/ GetItemsByCategoryFailing
    \/ GetItemsBySubCategoryFailing
    \/ EditItemFailing
    \/ SearchItemFailing

SpecFailing == Init /\ [][NextFailing]_vars

\* the category and the items of the interleaved requests
CreateBaseCategory ==
    /\ Len(categories) < MaxCategories
    /\ Commit(createCategory(CategoryBase))

CreateAmountItem ==
    /\ Len(items) < MaxItems
    /\ \E body \in ItemAmountBodies : Commit(createItem(body))

\* editItem up to its update: a request that is answered here ends, another
\* one keeps the row it has read
BeginEditItem(k) ==
    /\ requests[k] = U
    /\ \E id \in ItemIds, body \in ItemAmountEditBodies :
          LET r == editItemRead(Some(id), body)
          IN  IF r.status = 200
              THEN requests' =
                      [requests EXCEPT ![k] =
                          Some([id |-> id, body |-> body,
                                itemExists |-> items[id]])]
              ELSE UNCHANGED requests
    /\ UNCHANGED <<categories, subCategories, items>>

\* the update of editItem and its response
EndEditItem(k) ==
    /\ requests[k] # U
    /\ LET req == requests[k][1]
           r == editItemWrite(Some(req.id), req.body, req.itemExists)
       IN  /\ categories' = r.categories
           /\ subCategories' = r.subCategories
           /\ items' = r.items
    /\ requests' = [requests EXCEPT ![k] = U]

NextInterleaved ==
    \/ CreateBaseCategory
    \/ CreateAmountItem
    \/ \E k \in 1 .. MaxInFlight : BeginEditItem(k)
    \/ \E k \in 1 .. MaxInFlight : EndEditItem(k)

SpecInterleaved == Init /\ [][NextInterleaved]_vars

\* the items of a search are created under several names
CreateSearchItem ==
    /\ Len(items) < MaxSearchItems
    /\ \E body \in SearchItemBodies : Commit(createItem(body))

NextSearch ==
    \/ CreateCategory
    \/ EditCategory
    \/ CreateSearchItem
    \/ SearchItem

SpecSearch == Init /\ [][NextSearch]_vars

-----------------------------------------------------------------------------
(* Properties *)

SameTables(r) ==
    /\ r.categories = categories
    /\ r.subCategories = subCategories
    /\ r.items = items

\* the record a create request appended
Created(table) == table[Len(table)]

DiscountOf(item) == IF item.discount = U THEN 0 ELSE item.discount[1]

\* C1: every stored Item has totalAmount = baseAmount - discount, an absent
\* discount counting as 0.
C1_TotalIsBaseMinusDiscount ==
    \A i \in 1 .. Len(items) :
        items[i].totalAmount = items[i].baseAmount - DiscountOf(items[i])

\* C2: a successful editItem that supplies exactly one of baseAmount and
\* discount stores totalAmount = (supplied or stored baseAmount) - (supplied or
\* stored discount).
C2_EditItemRecomputesTotal ==
    \A id \in ItemIds, body \in ItemEditBodies :
        /\ (body.baseAmount = U /\ body.discount # U) =>
              LET r == editItem(Some(id), body)
              IN  r.status = 200 =>
                    r.items[id].totalAmount =
                        items[id].baseAmount - body.discount[1]
        /\ (body.baseAmount # U /\ body.discount = U) =>
              LET r == editItem(Some(id), body)
              IN  r.status = 200 =>
                    r.items[id].totalAmount =
                        body.baseAmount[1] - DiscountOf(items[id])

\* C3: a successful editItem that supplies neither baseAmount nor discount
\* leaves the item's baseAmount, discount and totalAmount as they were.
C3_EditItemWithoutAmountsKeepsAmounts ==
    \A id \in ItemIds, body \in ItemEditBodies :
        (body.baseAmount = U /\ body.discount = U) =>
            LET r == editItem(Some(id), body)
            IN  r.status = 200 =>
                  /\ r.items[id].baseAmount = items[id].baseAmount
                  /\ r.items[id].discount = items[id].discount
                  /\ r.items[id].totalAmount = items[id].totalAmount

\* an item with a discount is stored, and an edit without amounts succeeds on
\* it and changes it
C3_Witness ==
    \E id \in ItemIds, body \in ItemEditBodies :
        /\ body.baseAmount = U /\ body.discount = U
        /\ Exists(items, id)
        /\ items[id].discount = Some(1)
        /\ items[id].totalAmount # items[id].baseAmount
        /\ editItem(Some(id), body).status = 200
        /\ editItem(Some(id), body).items[id] # items[id]

\* C4: a successful createSubCategory without taxApplicable and tax stores a
\* SubCategory with the parent Category's current taxApplicable and tax.
C4_SubCategoryInheritsTax ==
    \A body \in SubCategoryCreateBodies :
        (body.taxApplicable = U /\ body.tax = U) =>
            LET r == createSubCategory(body)
            IN  r.status = 200 =>
                  LET parent == categories[body.categoryId[1]]
                      new == Created(r.subCategories)
                  IN  /\ Len(r.subCategories) = Len(subCategories) + 1
                      /\ new.categoryId = body.categoryId[1]
                      /\ new.taxApplicable = Some(parent.taxApplicable)
                      /\ new.tax = parent.tax

\* a subcategory stored under a taxed category, with the category's tax
C4_Witness ==
    /\ Len(subCategories) = 1 /\ Len(categories) = 1
    /\ categories[1].taxApplicable /\ categories[1].tax = Some(1)
    /\ subCategories[1].taxApplicable = Some(TRUE)
    /\ subCategories[1].tax = Some(1)
    /\ \E body \in SubCategoryCreateBodies :
          /\ body.taxApplicable = U /\ body.tax = U
          /\ createSubCategory(body).status = 200

\* C5: createSubCategory stores a supplied taxApplicable or tax as given
\* (false and 0 included), whatever the parent Category holds.
C5_SuppliedTaxStoredAsGiven ==
    \A body \in SubCategoryCreateBodies :
        LET r == createSubCategory(body)
        IN  r.status = 200 =>
              /\ body.taxApplicable # U =>
                    Created(r.subCategories).taxApplicable = body.taxApplicable
              /\ body.tax # U => Created(r.subCategories).tax = body.tax

TaxFields(table) ==
    [i \in 1 .. Len(table) |-> <<table[i].taxApplicable, table[i].tax>>]

\* C6: no editCategory call, successful or not, changes the taxApplicable or
\* tax of a stored SubCategory or Item.
C6_EditCategoryKeepsChildTax ==
    \A id \in CategoryIds, body \in CategoryEditBodies :
        LET r == editCategory(Some(id), body)
        IN  /\ TaxFields(r.subCategories) = TaxFields(subCategories)
            /\ TaxFields(r.items) = TaxFields(items)

\* a category with a subcategory that inherited its tax and an item, and an
\* edit that changes the category's tax
C6_Witness ==
    \E id \in CategoryIds, body \in CategoryEditBodies :
        /\ Exists(categories, id)
        /\ \E i \in 1 .. Len(subCategories) :
              /\ subCategories[i].categoryId = id
              /\ subCategories[i].tax = categories[id].tax
        /\ \E i \in 1 .. Len(items) : items[i].categoryId = Some(id)
        /\ editCategory(Some(id), body).status = 200
        /\ editCategory(Some(id), body).categories[id].tax # categories[id].tax
        /\ editCategory(Some(id), body).categories[id].taxApplicable
                # categories[id].taxApplicable

\* C7: editCategory with taxApplicable = true and neither tax nor taxType is
\* answered 400 and changes no record.
C7_EditCategoryTaxRequired ==
    \A id \in CategoryIds, body \in CategoryEditBodies :
        (body.taxApplicable = Some(TRUE) /\ body.tax = U /\ body.taxType = U) =>
            LET r == editCategory(Some(id), body)
            IN  r.status = 400 /\ SameTables(r)

\* a stored untaxed category, the target of such a request
C7_Witness ==
    \E id \in CategoryIds, body \in CategoryEditBodies :
        /\ body.taxApplicable = Some(TRUE) /\ body.tax = U /\ body.taxType = U
        /\ body.name # U
        /\ Exists(categories, id)
        /\ ~categories[id].taxApplicable
        /\ categories[id].tax = U /\ categories[id].taxType = U
        /\ editCategory(Some(id), body).status = 400

\* C8: createCategory answers 400 and creates nothing when name, image or
\* description is missing, taxApplicable is not present, or taxApplicable is
\* true with neither tax nor taxType present; otherwise it answers 201 and
\* stores one new Category with the supplied tax and taxType.
C8_CreateCategoryValidation ==
    \A body \in CategoryCreateBodies :
        LET r == createCategory(body)
            rejected ==
                \/ body.name = U \/ body.image = U \/ body.description = U
                \/ body.taxApplicable = U
                \/ /\ body.taxApplicable = Some(TRUE)
                   /\ body.tax = U /\ body.taxType = U
        IN  IF rejected
            THEN r.status = 400 /\ SameTables(r)
            ELSE /\ r.status = 201
                 /\ Len(r.categories) = Len(categories) + 1
                 /\ SubSeq(r.categories, 1, Len(categories)) = categories
                 /\ Created(r.categories).tax = body.tax
                 /\ Created(r.categories).taxType = body.taxType
                 /\ r.subCategories = subCategories
                 /\ r.items = items

NoParent(body) == body.subCategory = U /\ body.category = U

\* a parent the body names is not stored
ParentUnresolved(body) ==
    \/ body.subCategory # U /\ ~Exists(subCategories, body.subCategory[1])
    \/ body.category # U /\ ~Exists(categories, body.category[1])

ItemRequiredSupplied(body) ==
    /\ body.name # U /\ body.image # U /\ body.description # U
    /\ body.taxApplicable # U
    /\ body.baseAmount # U /\ body.baseAmount # Some(0)

C10_EditItemTaxRequired ==
    \A id \in ItemIds, body \in ItemEditBodies :
        (body.taxApplicable = Some(TRUE) /\ body.tax = U) =>
            LET r == editItem(Some(id), body)
            IN  r.status = 400 /\ SameTables(r)

\* a stored item that is not taxed but holds a tax, the target of such a
\* request
C10_Witness ==
    \E id \in ItemIds, body \in ItemEditBodies :
        /\ body.taxApplicable = Some(TRUE) /\ body.tax = U
        /\ Exists(items, id)
        /\ items[id].taxApplicable = Some(FALSE)
        /\ items[id].tax = Some(1)
        /\ editItem(Some(id), body).status = 400

\* a reference a request supplies that names no stored record
Unresolved(table, ref) == ref # U /\ ~Exists(table, ref[1])

\* C11: an edit that passes the field validation and whose id names no stored
\* record is answered 404 and changes no table; so is an editItem whose
\* subCategory or category names no stored record.
C11_EditUnresolvedIs404 ==
    /\ \A id \in CategoryIds, body \in CategoryEditBodies :
          (/\ ~Exists(categories, id)
           /\ ~categoryNoFields(body) /\ ~editCategoryTaxMissing(body)) =>
              LET r == editCategory(Some(id), body)
              IN  r.status = 404 /\ SameTables(r)
    /\ \A id \in SubCategoryIds, body \in SubCategoryUpdateBodies :
          (~Exists(subCategories, id) /\ ~subCategoryNoFields(body)) =>
              LET r == editSubCategory(Some(id), body)
              IN  r.status = 404 /\ SameTables(r)
    /\ \A id \in ItemIds, body \in ItemEditBodies :
          (/\ ~itemNoFields(body) /\ ~editItemTaxMissing(body)
           /\ \/ ~Exists(items, id)
              \/ Unresolved(subCategories, body.subCategory)
              \/ Unresolved(categories, body.category)) =>
              LET r == editItem(Some(id), body)
              IN  r.status = 404 /\ SameTables(r)

\* an edit of a stored item names a category that is not stored, and an edit
\* with a name goes to an item that is not stored
C11_Witness ==
    /\ Exists(items, 1)
    /\ \E body \in ItemEditBodies :
          /\ Unresolved(categories, body.category)
          /\ body.subCategory = U
          /\ editItem(Some(1), body).status = 404
    /\ \E id \in ItemIds, body \in ItemEditBodies :
          /\ ~Exists(items, id) /\ body.name # U
          /\ editItem(Some(id), body).status = 404

\* the option a stored attribute holds equals the option the body supplies
Applied(supplied, stored) == supplied # U => stored = supplied

\* the stored attribute is as it was when the body does not supply it
Kept(supplied, old, new) == supplied = U => new = old

\* every record of the table but the one at id is as it was
OthersKept(old, new, id) ==
    /\ Len(new) = Len(old)
    /\ \A j \in 1 .. Len(old) : j # id => new[j] = old[j]

\* C12: a successful editCategory or editSubCategory keeps every attribute of
\* the target that the body does not supply, editSubCategory keeps categoryId,
\* and no other record of any table is modified.
C12_EditChangesOnlySupplied ==
    /\ \A id \in CategoryIds, body \in CategoryEditBodies :
          LET r == editCategory(Some(id), body)
          IN  r.status = 200 =>
                LET old == categories[id]
                    new == r.categories[id]
                IN  /\ Kept(body.name, old.name, new.name)
                    /\ Kept(body.image, old.image, new.image)
                    /\ Kept(body.description, old.description, new.description)
                    /\ Kept(body.taxApplicable, old.taxApplicable,
                            new.taxApplicable)
                    /\ Kept(body.tax, old.tax, new.tax)
                    /\ Kept(body.taxType, old.taxType, new.taxType)
                    /\ OthersKept(categories, r.categories, id)
                    /\ r.subCategories = subCategories
                    /\ r.items = items
    /\ \A id \in SubCategoryIds, body \in SubCategoryUpdateBodies :
          LET r == editSubCategory(Some(id), body)
          IN  r.status = 200 =>
                LET old == subCategories[id]
                    new == r.subCategories[id]
                IN  /\ Kept(body.name, old.name, new.name)
                    /\ Kept(body.image, old.image, new.image)
                    /\ Kept(body.description, old.description, new.description)
                    /\ Kept(body.taxApplicable, old.taxApplicable,
                            new.taxApplicable)
                    /\ Kept(body.tax, old.tax, new.tax)
                    /\ new.categoryId = old.categoryId
                    /\ OthersKept(subCategories, r.subCategories, id)
                    /\ r.categories = categories
                    /\ r.items = items

\* a category that holds a tax is edited by a body without tax, and a
\* subcategory that holds a tax likewise
C12_Witness ==
    /\ \E id \in CategoryIds, body \in CategoryEditBodies :
          /\ Exists(categories, id) /\ categories[id].tax # U
          /\ body.tax = U /\ body.name # U
          /\ editCategory(Some(id), body).status = 200
    /\ \E id \in SubCategoryIds, body \in SubCategoryUpdateBodies :
          /\ Exists(subCategories, id) /\ subCategories[id].tax # U
          /\ body.tax = U /\ body.name # U
          /\ editSubCategory(Some(id), body).status = 200

\* C13: an editItem on a stored item whose body supplies baseAmount = 0 or
\* discount = 0 is not rejected as having no fields, and when it succeeds the
\* 0 is stored in that field and totalAmount is recomputed with it.
C13_EditItemZeroIsSupplied ==
    \A id \in ItemIds, body \in ItemEditBodies :
        (/\ Exists(items, id)
         /\ (body.baseAmount = Some(0) \/ body.discount = Some(0))) =>
            LET r == editItem(Some(id), body)
            IN  /\ r.message # "At least one field is required"
                /\ r.status = 200 =>
                      LET new == r.items[id]
                      IN  /\ Applied(body.baseAmount, Some(new.baseAmount))
                          /\ Applied(body.discount, new.discount)
                          /\ new.totalAmount =
                                new.baseAmount - DiscountOf(new)

\* the body supplies none of the category's updatable fields
CategorySuppliesNone(body) ==
    /\ body.name = U /\ body.image = U /\ body.description = U
    /\ body.taxApplicable = U /\ body.tax = U /\ body.taxType = U

SubCategorySuppliesNone(body) ==
    /\ body.name = U /\ body.image = U /\ body.description = U
    /\ body.taxApplicable = U /\ body.tax = U

ItemSuppliesNone(body) ==
    /\ body.name = U /\ body.image = U /\ body.description = U
    /\ body.taxApplicable = U /\ body.tax = U
    /\ body.baseAmount = U /\ body.discount = U
    /\ body.subCategory = U /\ body.category = U

NoFieldsAnswer(r) ==
    r.status = 400 /\ r.message = "At least one field is required"

\* C14: each edit handler answers 400 "At least one field is required"
\* exactly when the body supplies none of the entity's updatable fields, and
\* a successful edit stores every value the body supplies, taxApplicable =
\* false included.
C14_NoFieldsExactlyWhenNoneSupplied ==
    /\ \A id \in CategoryIds, body \in CategoryEditBodies :
          LET r == editCategory(Some(id), body)
          IN  /\ NoFieldsAnswer(r) <=> CategorySuppliesNone(body)
              /\ r.status = 200 =>
                    LET new == r.categories[id]
                    IN  /\ Applied(body.name, Some(new.name))
                        /\ Applied(body.image, Some(new.image))
                        /\ Applied(body.description, Some(new.description))
                        /\ Applied(body.taxApplicable, Some(new.taxApplicable))
                        /\ Applied(body.tax, new.tax)
                        /\ Applied(body.taxType, new.taxType)
    /\ \A id \in SubCategoryIds, body \in SubCategoryUpdateBodies :
          LET r == editSubCategory(Some(id), body)
          IN  /\ NoFieldsAnswer(r) <=> SubCategorySuppliesNone(body)
              /\ r.status = 200 =>
                    LET new == r.subCategories[id]
                    IN  /\ Applied(body.name, Some(new.name))
                        /\ Applied(body.image, Some(new.image))
                        /\ Applied(body.description, Some(new.description))
                        /\ Applied(body.taxApplicable, new.taxApplicable)
                        /\ Applied(body.tax, new.tax)
    /\ \A id \in ItemIds, body \in ItemEditBodies :
          LET r == editItem(Some(id), body)
          IN  /\ NoFieldsAnswer(r) <=> ItemSuppliesNone(body)
              /\ r.status = 200 =>
                    LET new == r.items[id]
                    IN  /\ Applied(body.name, Some(new.name))
                        /\ Applied(body.image, Some(new.image))
                        /\ Applied(body.description, Some(new.description))
                        /\ Applied(body.taxApplicable, new.taxApplicable)
                        /\ Applied(body.tax, new.tax)
                        /\ Applied(body.baseAmount, Some(new.baseAmount))
                        /\ Applied(body.discount, new.discount)
                        /\ Applied(body.subCategory, new.subCategoryId)
                        /\ Applied(body.category, new.categoryId)

\* C18: every stored Category with taxApplicable = true holds a tax or a
\* non-empty taxType.
C18_TaxedCategoryHasTaxOrType ==
    \A i \in 1 .. Len(categories) :
        categories[i].taxApplicable = TRUE =>
            categories[i].tax # U \/ TruthyStr(categories[i].taxType)

\* a taxed category that holds a taxType and no tax
C18_Witness ==
    \E i \in 1 .. Len(categories) :
        /\ categories[i].taxApplicable = TRUE
        /\ categories[i].tax = U
        /\ categories[i].taxType # U

RowSet(r) == {r.data[k] : k \in 1 .. Len(r.data)}

\* the rows of the table whose record is among those given
Matching(table, records) ==
    {[id |-> i, row |-> table[i]] :
        i \in {j \in 1 .. Len(table) : table[j] \in records}}

\* a list answers 404 when no row matches and otherwise 200 with every
\* matching row, each once
ListAnswer(r, matching) ==
    IF matching = {}
    THEN r.status = 404
    ELSE /\ r.status = 200
         /\ RowSet(r) = matching
         /\ Len(r.data) = Cardinality(matching)

\* C15: getCategories, getSubCategories and getItems answer 404 when the table
\* is empty and otherwise 200 with every stored record of the table;
\* getSubCategoriesByCategory, getItemsByCategory and getItemsBySubCategory
\* answer 404 when no row has the parent id and otherwise 200 with those rows.
C15_ListsAnswer ==
    /\ ListAnswer(getCategories, Matching(categories, Stored(categories)))
    /\ ListAnswer(getSubCategories, Matching(subCategories, Stored(subCategories)))
    /\ ListAnswer(getItems, Matching(items, Stored(items)))
    /\ \A id \in CategoryIds :
          /\ ListAnswer(getSubCategoriesByCategory(Some(id)),
                        Matching(subCategories,
                            {c \in Stored(subCategories) : c.categoryId = id}))
          /\ ListAnswer(getItemsByCategory(Some(id)),
                        Matching(items,
                            {c \in Stored(items) : c.categoryId = Some(id)}))
    /\ \A id \in SubCategoryIds :
          ListAnswer(getItemsBySubCategory(Some(id)),
                     Matching(items,
                         {c \in Stored(items) : c.subCategoryId = Some(id)}))

\* an item is stored under the category alone while a subcategory is stored:
\* the lists of all three tables are answered 200, and so is the item list of
\* the category, while the item list of the subcategory is answered 404
C15_Witness ==
    /\ Len(subCategories) = 1 /\ Len(items) = 1
    /\ items[1].subCategoryId = U
    /\ getCategories.status = 200
    /\ getSubCategories.status = 200
    /\ getItems.status = 200 /\ Len(getItems.data) = 1
    /\ getItemsByCategory(Some(1)).status = 200
    /\ getItemsBySubCategory(Some(1)).status = 404
    /\ getSubCategoriesByCategory(Some(2)).status = 404

\* the two characters are the same letter, in either case
SameLetter(a, b) ==
    \/ a = b
    \/ \E u \in 1 .. Len(UpperCase) : {a, b} = {UpperCase[u], LowerCase[u]}

\* the query occurs in the name at some offset, letter case ignored
NameHas(name, query) ==
    LET hay == Chars(name)
        needle == Chars(query)
    IN  \E k \in 0 .. Len(hay) :
            /\ k + Len(needle) <= Len(hay)
            /\ \A j \in 1 .. Len(needle) : SameLetter(hay[k + j], needle[j])

\* C17: searchItem with a non-empty name answers 200 with exactly the stored
\* Items whose name contains the query, letter case ignored, when there is
\* one, and 404 "items not found" when there is none; without a name it
\* answers 400; it never changes a table.
C17_SearchItem ==
    \A name \in Opt(SearchQueries) :
        LET r == searchItem(name)
        IN  /\ SameTables(r)
            /\ IF name = U \/ name = Some("")
               THEN r.status = 400
               ELSE /\ ListAnswer(r, Matching(items,
                        {c \in Stored(items) : NameHas(c.name, name[1])}))
                    /\ r.status = 404 => r.message = "items not found"

\* two items are stored of which the query "TEA" finds both, the query "ch"
\* one and the query "tee" none
C17_Witness ==
    /\ Len(items) = 2
    /\ items[1].name = "Iced tea" /\ items[2].name = "Chai"
    /\ searchItem(Some("a")).status = 200
    /\ Len(searchItem(Some("a")).data) = 2
    /\ searchItem(Some("TEA")).status = 200
    /\ Len(searchItem(Some("TEA")).data) = 1
    /\ searchItem(Some("ch")).status = 200
    /\ searchItem(Some("ch")).data[1].id = 2
    /\ searchItem(Some("tee")).status = 404

\* whichever gateway call of the request throws, the client gets one response,
\* a 500 with a message, and nothing escapes the handler
FailureAnswered(r, calls) ==
    \A fail \in 1 .. Len(calls) :
        \A o \in WithFailure(r, calls, fail) :
            /\ Len(o.responses) = 1
            /\ o.responses[1].status = 500
            /\ o.responses[1].message # ""
            /\ ~o.escaped

\* C16: in every handler a failure of any gateway call, the existence lookups
\* of createSubCategory, editSubCategory, createItem and editItem included,
\* ends the request with exactly one response, a 500 with a message, and no
\* failure escapes the handler.
C16_GatewayFailureIs500 ==
    /\ \A body \in CategoryCreateBodies :
          FailureAnswered(createCategory(body), createCategoryCalls(body))
    /\ FailureAnswered(getCategories, getCategoriesCalls)
    /\ \A id \in Opt(CategoryIds), name \in Opt(SearchQueries) :
          FailureAnswered(getCategory(id, name), getCategoryCalls(id, name))
    /\ \A id \in CategoryIds, body \in CategoryEditBodies :
          FailureAnswered(editCategory(Some(id), body),
                          editCategoryCalls(Some(id), body))
    /\ FailureAnswered(getSubCategories, getSubCategoriesCalls)
    /\ \A id \in Opt(SubCategoryIds), name \in Opt(SearchQueries) :
          FailureAnswered(getSubCategory(id, name),
                          getSubCategoryCalls(id, name))
    /\ \A id \in CategoryIds :
          /\ FailureAnswered(getSubCategoriesByCategory(Some(id)),
                             getSubCategoriesByCategoryCalls(Some(id)))
          /\ FailureAnswered(getItemsByCategory(Some(id)),
                             getItemsByCategoryCalls(Some(id)))
    /\ FailureAnswered(getItems, getItemsCalls)
    /\ \A id \in Opt(ItemIds), name \in Opt(SearchQueries) :
          FailureAnswered(getItem(id, name), getItemCalls(id, name))
    /\ \A id \in SubCategoryIds :
          FailureAnswered(getItemsBySubCategory(Some(id)),
                          getItemsBySubCategoryCalls(Some(id)))
    /\ \A name \in Opt(SearchQueries) :
          FailureAnswered(searchItem(name), searchItemCalls(name))
    /\ \A body \in SubCategoryCreateBodies :
          FailureAnswered(createSubCategory(body), createSubCategoryCalls(body))
    /\ \A id \in SubCategoryIds, body \in SubCategoryUpdateBodies :
          FailureAnswered(editSubCategory(Some(id), body),
                          editSubCategoryCalls(Some(id), body))
    /\ \A body \in ItemCreateBodies :
          FailureAnswered(createItem(body), createItemCalls(body))
    /\ \A id \in ItemIds, body \in ItemEditBodies :
          FailureAnswered(editItem(Some(id), body),
                          editItemCalls(Some(id), body))

\* the item's total is its base amount less its discount
Consistent(item) == item.totalAmount = item.baseAmount - DiscountOf(item)

\* C20: when editItem requests on the same Item interleave between their read
\* and their write, the write of a request that supplies neither baseAmount
\* nor discount leaves the stored totalAmount as it is, whatever a concurrent
\* request has written since the read, and an item that satisfied
\* totalAmount = baseAmount - discount before that write satisfies it after.
C20_NoStaleTotalOverwrite ==
    [][\A k \in 1 .. MaxInFlight :
          (/\ requests[k] # U /\ requests'[k] = U
           /\ requests[k][1].body.baseAmount = U
           /\ requests[k][1].body.discount = U) =>
              LET id == requests[k][1].id
              IN  /\ items'[id].totalAmount = items[id].totalAmount
                  /\ Consistent(items[id]) => Consistent(items'[id])]_vars

=============================================================================
